---------------------------- MODULE Spec2Model ----------------------------
(***************************************************************************)
(* A model of go-doit's scheduling core (src/main.go, lines 1-266):        *)
(* ScheduleTasks builds a dependency graph over the declared tasks plus a  *)
(* synthetic root, sorts it with github.com/stevenle/topsort, and filters  *)
(* the order through dirty(); main() then calls UpdateDepData for every    *)
(* task returned.  The filesystem and the storm database are the two       *)
(* pieces of state that outlive one run of the program.                    *)
(*                                                                         *)
(* A file's content is a number; NoFile stands for a path that does not    *)
(* exist and Locked for a file that exists and cannot be opened or read.   *)
(* A string digest is modelled as a sequence: <<>> is the empty string ""  *)
(* and <<c>> the md5 digest of content c.                                  *)
(*                                                                         *)
(* Spec is the program run again and again while the environment changes   *)
(* files; SpecRuns leaves the filesystem alone; SpecShort has at most two  *)
(* tasks and files that also fail to read; SpecDirty and SpecStore have    *)
(* one task, over every stored record.  prev, touched and ranOn are        *)
(* history variables: no action of the program reads them.                 *)
(***************************************************************************)
EXTENDS Integers, Sequences, FiniteSets, TLC

\* ---------------------------------------------------------------- bounds

\* Task names a caller may declare, in the order fresh names are introduced.
NameOrder == <<"t1", "t2", "t3">>
Names == {NameOrder[i] : i \in 1..Len(NameOrder)}
\* Paths a task may name in fileDep or targets.
Files == {"f1", "f2"}
\* The total number of entries of all fileDep, targets and taskDep sets of a
\* task list.
MaxDecls == 3
\* Distinct contents a file can have (1..MaxContent).
MaxContent == 2
\* Runs of the program (invocations of main).
MaxRuns == 2
\* Changes the environment makes to the filesystem after the first run started.
MaxWrites == 1
\* Runs of the program on a list of one task or none.
MaxRunsOne == 3

\* ------------------------------------------------------------ the program

VARIABLES
    tasks,    \* the task list handed to ScheduleTasks (fixed for the life of the model)
    fs,       \* the filesystem: path -> content, NoFile when the path does not exist
    db,       \* the storm bucket "ID": task name -> stored fileHashes
    pc,       \* "start": before ScheduleTasks; "ran": in main's loop; "fatal": the process died
    outcome,  \* how the last ScheduleTasks ended
    order,    \* taskResults, the slice handed to FilterTasks
    result,   \* the slice ScheduleTasks returned
    next,     \* index in result of the next UpdateDepData of main's loop
    runs,     \* runs started so far
    writes,   \* filesystem changes so far
    last,     \* the action that produced this state
    prev,     \* history: how the run before this one ended, and what it left uncommitted
    touched,  \* history: the last change of the filesystem
    ranOn     \* history: per name, the file dependencies' contents when the task was last returned

vars == <<tasks, fs, db, pc, outcome, order, result, next, runs, writes, last,
          prev, touched, ranOn>>

\* os.IsNotExist(err) after os.Stat(path)
NoFile == 0

\* A file that exists and that os.Open, or the read of io.Copy, fails on.
Locked == -1

\* the root task of ScheduleTasks
root == [name |-> "root", fileDep |-> {}, targets |-> {}, taskDep |-> {}]

\* Task{}: the zero value that fills taskResults beyond the sorted names. Its
\* name is "" and its three sets are nil interfaces.
ZeroTask == [name |-> "", fileDep |-> {}, targets |-> {}, taskDep |-> {}]

IsZeroTask(t) == t.name = ""

\* A map[string]string that is nil (no record could be read) or not.  In the
\* bucket, bad marks a value that is there but that db.Get fails to read or to
\* decode.
NilMap == [isNil |-> TRUE, m |-> [p \in {} |-> <<>>], bad |-> FALSE]

MakeMap(m) == [isNil |-> FALSE, m |-> m, bad |-> FALSE]

\* A stored value db.Get returns an error for, whatever was stored.
BadRecord(m) == [isNil |-> FALSE, m |-> m, bad |-> TRUE]

\* ---------------------------------------------------------------- inputs

Card(S) == Cardinality(S)

\* The shapes of one task with at most k declared entries.
TaskShapes(k) ==
    {s \in [fileDep : SUBSET Files, targets : SUBSET Files, taskDep : SUBSET Names] :
        Card(s.fileDep) + Card(s.targets) + Card(s.taskDep) <= k}

Decls(s) == Card(s.fileDep) + Card(s.targets) + Card(s.taskDep)

RECURSIVE TotalDecls(_)
TotalDecls(l) == IF l = <<>> THEN 0 ELSE Decls(Head(l)) + TotalDecls(Tail(l))

\* Names a list may give its next task: those already used, or the next fresh one.
NextNames(l) ==
    LET used == {l[i].name : i \in 1..Len(l)}
    IN  used \cup {NameOrder[Card(used) + 1]}

\* A task list extended by one task, within what is left of MaxDecls.
Extend(l) ==
    {Append(l, [name |-> nm, fileDep |-> s.fileDep,
                targets |-> s.targets, taskDep |-> s.taskDep]) :
        nm \in NextNames(l), s \in TaskShapes(MaxDecls - TotalDecls(l))}

\* ts is a task list of at most Len(NameOrder) tasks, up to the choice of
\* fresh names.
IsTaskList(ts) ==
    \/ ts = <<>>
    \/ \E l1 \in Extend(<<>>) :
        \/ ts = l1
        \/ \E l2 \in Extend(l1) :
            \/ ts = l2
            \/ \E l3 \in Extend(l2) : ts = l3

NoOutcome == [kind |-> "none", a |-> "", b |-> "", path |-> ""]

\* No run before this one.
NoPrev == [kind |-> "none", left |-> {}]

\* No change of the filesystem yet.  settled: every declared task was current
\* when the file changed; fresh: no UpdateDepData ran since the change.
NoTouch == [path |-> "", from |-> NoFile, settled |-> FALSE, fresh |-> FALSE]

\* The task of this name was never returned.
NeverRan == [ran |-> FALSE, on |-> [p \in {} |-> NoFile]]

\* The history variables before the first run.
InitHistory ==
    /\ prev = NoPrev
    /\ touched = NoTouch
    /\ ranOn = [n \in Names \cup {root.name} |-> NeverRan]

\* The paths the program can look at: those some task names.
DeclaredFiles(ts) == UNION {ts[i].fileDep \cup ts[i].targets : i \in 1..Len(ts)}

Init ==
    /\ IsTaskList(tasks)
    /\ fs \in {f \in [Files -> {NoFile, 1}] :
                    \A p \in Files \ DeclaredFiles(tasks) : f[p] = NoFile}
    /\ db = [n \in Names \cup {root.name} |-> NilMap]
    /\ pc = "start"
    /\ outcome = NoOutcome
    /\ order = <<>>
    /\ result = <<>>
    /\ next = 1
    /\ runs = 0
    /\ writes = 0
    /\ last = "Init"
    /\ InitHistory


\* ------------------------------------------------ github.com/stevenle/topsort

\* The library is a dependency of the repository, not part of it; it is
\* modelled from its source (topsort.go), at the places main.go calls it.

\* NewGraph, then AddNode for each name of ns: a node is its set of edges.
\* AddNode leaves a node that is already there alone.
NewGraph(ns) == [n \in ns |-> {}]

\* AddEdge(from, to) once both are nodes: node.addEdge sets n[to] = true.
AddEdge(g, from, to) == [g EXCEPT ![from] = @ \cup {to}]

\* orderedset.add: append unless already in the set.
OrderedAdd(items, x) ==
    IF \E i \in 1..Len(items) : items[i] = x THEN items ELSE Append(items, x)

CycleError == [err |-> TRUE, items |-> <<>>]

\* Graph.visit(name, results, visited): visited holds the names on the path from
\* the start (each recursive call gets visited.copy()).  node.edges() ranges over
\* a Go map, whose iteration order is not fixed: the value is the set of every
\* outcome some iteration order produces.  An outcome is the error or the
\* results after the visit.
RECURSIVE visit(_, _, _, _)
RECURSIVE visitEdges(_, _, _, _)
visit(g, name, results, visited) ==
    IF name \in visited
    THEN {CycleError}
    ELSE {IF o.err THEN o ELSE [err |-> FALSE, items |-> OrderedAdd(o.items, name)] :
            o \in visitEdges(g, g[name], results, visited \cup {name})}

\* The loop over n.edges(): edges still to visit, in any order; the first error
\* returns.
visitEdges(g, edges, results, visited) ==
    IF edges = {}
    THEN {[err |-> FALSE, items |-> results]}
    ELSE UNION {
            UNION {IF o.err THEN {o} ELSE visitEdges(g, edges \ {e}, o.items, visited) :
                    o \in visit(g, e, results, visited)}
            : e \in edges}

\* Graph.TopSort(name)
TopSort(g, name) == visit(g, name, <<>>, {})

\* ------------------------------------------------------- fingerprints, store

\* hashFile ends the process (log.Fatalf) on a file that exists and cannot be
\* opened or read.
HashFails(path) == fs[path] = Locked

\* hashFile looking at nothing but whether the file is there.
hashFileStat(path) == IF fs[path] = NoFile THEN <<>> ELSE <<1>>

\* hashFile, where it returns: "" for a path that does not exist, else the md5
\* digest of its content.
hashFile(path) == IF fs[path] = NoFile THEN <<>> ELSE <<fs[path]>>

\* CalculateDepData(task) returns: no hashFile of its loop ends the process.
CanHash(task) == \A p \in task.fileDep : ~HashFails(p)

\* CalculateDepData
CalculateDepData(task) ==
    [ID |-> task.name,
     fileHashes |-> MakeMap([p \in task.fileDep |-> hashFile(p)])]

\* GetLastDepData with fileHashes made an empty map before db.Get: a name with
\* no readable record reads as the empty fingerprint.
GetLastDepDataMade(task, store) ==
    [ID |-> task.name,
     fileHashes |-> IF task.name \in DOMAIN store /\ ~store[task.name].bad
                        /\ ~store[task.name].isNil
                    THEN store[task.name] ELSE MakeMap([p \in {} |-> <<>>])]

\* GetLastDepData: db.Get decodes the stored value into result.fileHashes; its
\* error is dropped, and fileHashes stays nil when nothing was stored or the
\* value could not be read.
GetLastDepData(task, store) ==
    [ID |-> task.name,
     fileHashes |-> IF task.name \in DOMAIN store /\ ~store[task.name].bad
                    THEN store[task.name] ELSE NilMap]

\* reflect.DeepEqual on two map[string]string: a nil map is not deeply equal to
\* a non-nil one, even when both are empty.
DeepEqualMaps(x, y) ==
    /\ x.isNil = y.isNil
    /\ DOMAIN x.m = DOMAIN y.m
    /\ \A p \in DOMAIN x.m : x.m[p] = y.m[p]

\* reflect.DeepEqual on two DepData
DeepEqual(old, new) ==
    /\ old.ID = new.ID
    /\ DeepEqualMaps(old.fileHashes, new.fileHashes)

Stat(path) == fs[path] # NoFile

\* dirty as only the comparison of the two DepData.
dirtyDepsOnly(task, store) ==
    ~DeepEqual(GetLastDepData(task, store), CalculateDepData(task))

\* dirty without its last loop, the one over the targets.
dirtyNoTargets(task, store) ==
    LET old == GetLastDepData(task, store)
        new == CalculateDepData(task)
        depsChanged == ~DeepEqual(old, new)
    IN  IF depsChanged THEN TRUE
        ELSE IF \E path \in task.fileDep : ~Stat(path) THEN TRUE
        ELSE FALSE

\* dirty with the TODO of its comment done for taskDep: a task is dirty too
\* when a task it names in taskDep is.
dirtyWithTaskDeps(task, store) ==
    LET own(t) ==
            \/ ~DeepEqual(GetLastDepData(t, store), CalculateDepData(t))
            \/ \E path \in t.fileDep : ~Stat(path)
            \/ \E path \in t.targets : ~Stat(path)
    IN  \/ own(task)
        \/ \E i \in 1..Len(tasks) : tasks[i].name \in task.taskDep /\ own(tasks[i])

\* dirty, for a task whose sets are not nil
dirty(task, store) ==
    LET old == GetLastDepData(task, store)
        new == CalculateDepData(task)
        depsChanged == ~DeepEqual(old, new)
    IN  IF depsChanged THEN TRUE
        ELSE IF \E path \in task.fileDep : ~Stat(path) THEN TRUE
        ELSE IF \E path \in task.targets : ~Stat(path) THEN TRUE
        ELSE FALSE

\* FilterLoop putting each dirty task in front of the result.
RECURSIVE FilterLoopPrepend(_, _, _)
FilterLoopPrepend(ts, store, acc) ==
    IF ts = <<>> THEN [panic |-> FALSE, io |-> FALSE, result |-> acc]
    ELSE IF IsZeroTask(Head(ts)) THEN [panic |-> TRUE, io |-> FALSE, result |-> <<>>]
    ELSE IF ~CanHash(Head(ts)) THEN [panic |-> FALSE, io |-> TRUE, result |-> <<>>]
    ELSE FilterLoopPrepend(Tail(ts), store,
                           IF dirty(Head(ts), store) THEN <<Head(ts)>> \o acc ELSE acc)

\* FilterTasks: the loop appends each dirty task.  The value is the result, or
\* the panic of the call task.fileDep.Iter() on the nil set of a zero Task, or
\* the log.Fatalf of hashFile (io) in the CalculateDepData of dirty.
RECURSIVE FilterLoop(_, _, _)
FilterLoop(ts, store, acc) ==
    IF ts = <<>> THEN [panic |-> FALSE, io |-> FALSE, result |-> acc]
    ELSE IF IsZeroTask(Head(ts)) THEN [panic |-> TRUE, io |-> FALSE, result |-> <<>>]
    ELSE IF ~CanHash(Head(ts)) THEN [panic |-> FALSE, io |-> TRUE, result |-> <<>>]
    ELSE FilterLoop(Tail(ts), store,
                    IF dirty(Head(ts), store) THEN Append(acc, Head(ts)) ELSE acc)

FilterTasks(ts, store) == FilterLoop(ts, store, <<>>)

\* UpdateDepData with db.Set keyed by the bucket, not by the task's name: every
\* name reads the fingerprint stored last.
UpdateDepDataOneKey(task, store) ==
    [n \in DOMAIN store |-> CalculateDepData(task).fileHashes]

\* UpdateDepData without its db.Set: the record stays what it was.
UpdateDepDataUnsaved(task, store) == store

\* UpdateDepData, where CalculateDepData returns: db.Set stores the current
\* fileHashes under the task's name (a db.Set that fails is not modelled).
\* What db.Get decodes later is a non-nil map with the same entries, an empty
\* one included.
UpdateDepData(task, store) ==
    [store EXCEPT ![task.name] = CalculateDepData(task).fileHashes]


\* ------------------------------------------------------------ ScheduleTasks

TaskNames(ts) == {ts[i].name : i \in 1..Len(ts)}

\* taskNameMap after the first loop: a later task replaces an earlier one of
\* the same name.
TaskNameMap(ts) ==
    [n \in {root.name} \cup TaskNames(ts) |->
        IF n \in TaskNames(ts)
        THEN ts[CHOOSE i \in 1..Len(ts) :
                    /\ ts[i].name = n
                    /\ \A j \in (i + 1)..Len(ts) : ts[j].name # n]
        ELSE root]

\* GraphOfNodes without the edge root -> task of the first loop.
GraphOfNodesNoRootEdges(ts) == NewGraph({root.name} \cup TaskNames(ts))

\* The graph after the first loop: a node per name, and root -> every task.
GraphOfNodes(ts) ==
    [NewGraph({root.name} \cup TaskNames(ts)) EXCEPT ![root.name] = TaskNames(ts)]

\* "Add edges by task dependency": AddEdge fails on a name that is no node.
\* The first task with such a name ends the run; which of its names is met
\* first depends on the set's iteration order.
DanglingDeps(ts, i) == ts[i].taskDep \ ({root.name} \cup TaskNames(ts))

EdgeErrors(ts) ==
    IF \E i \in 1..Len(ts) : DanglingDeps(ts, i) # {}
    THEN LET i == CHOOSE k \in 1..Len(ts) :
                    /\ DanglingDeps(ts, k) # {}
                    /\ \A j \in 1..(k - 1) : DanglingDeps(ts, j) = {}
         IN  {[kind |-> "edge", a |-> ts[i].name, b |-> n, path |-> ""] :
                n \in DanglingDeps(ts, i)}
    ELSE {}

RECURSIVE AddTaskDepEdges(_, _, _)
AddTaskDepEdges(g, ts, i) ==
    IF i > Len(ts) THEN g
    ELSE AddTaskDepEdges([g EXCEPT ![ts[i].name] = @ \cup ts[i].taskDep], ts, i + 1)

\* "Sanity check: fileDeps either exist or are targets"
AllTargets(ts) == UNION {ts[i].targets : i \in 1..Len(ts)}

\* NotTargetsMissing without the Difference(allTargets): every fileDep must exist.
AllDepsMissing(ts, i) == {p \in ts[i].fileDep : ~Stat(p)}

NotTargetsMissing(ts, i) ==
    {p \in ts[i].fileDep \ AllTargets(ts) : ~Stat(p)}

MissingErrors(ts) ==
    IF \E i \in 1..Len(ts) : NotTargetsMissing(ts, i) # {}
    THEN LET i == CHOOSE k \in 1..Len(ts) :
                    /\ NotTargetsMissing(ts, k) # {}
                    /\ \A j \in 1..(k - 1) : NotTargetsMissing(ts, j) = {}
         IN  {[kind |-> "missing", a |-> ts[i].name, b |-> "", path |-> p] :
                p \in NotTargetsMissing(ts, i)}
    ELSE {}

\* "Add edges by fileDep/target relationship": the pairs t1 = tasks[i],
\* t2 in tasks[i+1:], in the order of the two loops.
Pairs(ts) == {pr \in (1..Len(ts)) \X (1..Len(ts)) : pr[1] < pr[2]}

PairBefore(p, q) == p[1] < q[1] \/ (p[1] = q[1] /\ p[2] < q[2])

ShareTargets(ts, pr) ==
    /\ Card(ts[pr[1]].targets) > 0
    /\ Card(ts[pr[2]].targets) > 0
    /\ ts[pr[1]].targets \cap ts[pr[2]].targets # {}

ConflictErrors(ts) ==
    IF \E pr \in Pairs(ts) : ShareTargets(ts, pr)
    THEN LET pr == CHOOSE q \in Pairs(ts) :
                    /\ ShareTargets(ts, q)
                    /\ \A r \in Pairs(ts) : PairBefore(r, q) => ~ShareTargets(ts, r)
         IN  {[kind |-> "conflict", a |-> ts[pr[1]].name, b |-> ts[pr[2]].name,
               path |-> ""]}
    ELSE {}

\* PairEdges without the second test of the loop body (t2 reading t1's targets).
PairEdgesOneWay(ts, pr) ==
    LET t1 == ts[pr[1]]
        t2 == ts[pr[2]]
    IN  IF Card(t2.targets) > 0 /\ t1.fileDep \cap t2.targets # {}
        THEN {<<t1.name, t2.name>>} ELSE {}

\* The edges one pair adds: t1 -> t2 when t1 reads a target of t2, and
\* t2 -> t1 when t2 reads a target of t1.
PairEdges(ts, pr) ==
    LET t1 == ts[pr[1]]
        t2 == ts[pr[2]]
    IN  (IF Card(t2.targets) > 0 /\ t1.fileDep \cap t2.targets # {}
         THEN {<<t1.name, t2.name>>} ELSE {})
        \cup
        (IF Card(t1.targets) > 0 /\ t2.fileDep \cap t1.targets # {}
         THEN {<<t2.name, t1.name>>} ELSE {})

FileEdges(ts) == UNION {PairEdges(ts, pr) : pr \in Pairs(ts)}

AddFileEdges(g, ts) ==
    [n \in DOMAIN g |-> g[n] \cup {e[2] : e \in {d \in FileEdges(ts) : d[1] = n}}]

\* The graph handed to TopSort.
BuildGraph(ts) == AddFileEdges(AddTaskDepEdges(GraphOfNodes(ts), ts, 1), ts)

\* The prototypes' "Add edges by fileDep/target relationship": source -> dest
\* for every source and every dest of the list, dest = source included, such
\* that source.fileDep contains a target of dest.
AllPairsFileEdges(ts) ==
    {<<ts[pr[1]].name, ts[pr[2]].name>> :
        pr \in {q \in (1..Len(ts)) \X (1..Len(ts)) :
                    \E targetFile \in ts[q[2]].targets : targetFile \in ts[q[1]].fileDep}}

\* The graph the prototype hands to TopSort, for a list of unique names (its
\* nodes are fresh ids, one per task).
PrototypeGraph(ts) ==
    LET g == AddTaskDepEdges(GraphOfNodes(ts), ts, 1)
    IN  [n \in DOMAIN g |->
            g[n] \cup {e[2] : e \in {d \in AllPairsFileEdges(ts) : d[1] = n}}]

\* The prototype's ScheduleTasks reaches FilterTasks: none of its log.Fatal
\* fires (undeclared taskDep, shared targets, missing dependency, cycle).
PrototypeAccepts(ts) ==
    /\ EdgeErrors(ts) = {}
    /\ ConflictErrors(ts) = {}
    /\ MissingErrors(ts) = {}
    /\ \A s \in TopSort(PrototypeGraph(ts), root.name) : ~s.err

\* "Re-map IDs to tasks": len(tasks)+1 entries, the zero Task where the sort
\* returned fewer names.
TaskResults(ts, nameResults) ==
    [i \in 1..(Len(ts) + 1) |->
        IF i <= Len(nameResults) THEN TaskNameMap(ts)[nameResults[i]] ELSE ZeroTask]

Ended(kind, a, b, path, ord, res) ==
    [kind |-> kind, a |-> a, b |-> b, path |-> path, order |-> ord, result |-> res]

\* ScheduleTasks(tasks, db): every way the call can end.  log.Fatal ends the
\* process at the first failing check, in the order of the code.
ScheduleTasks(ts, store) ==
    IF EdgeErrors(ts) # {}
    THEN {Ended(e.kind, e.a, e.b, e.path, <<>>, <<>>) : e \in EdgeErrors(ts)}
    ELSE IF MissingErrors(ts) # {}
    THEN {Ended(e.kind, e.a, e.b, e.path, <<>>, <<>>) : e \in MissingErrors(ts)}
    ELSE IF ConflictErrors(ts) # {}
    THEN {Ended(e.kind, e.a, e.b, e.path, <<>>, <<>>) : e \in ConflictErrors(ts)}
    ELSE {IF s.err
          THEN Ended("cycle", "", "", "", <<>>, <<>>)
          ELSE LET taskResults == TaskResults(ts, s.items)
                   f == FilterTasks(taskResults, store)
               IN  IF f.panic
                   THEN Ended("panic", "", "", "", taskResults, <<>>)
                   ELSE IF f.io
                   THEN Ended("io", "", "", "", taskResults, <<>>)
                   ELSE Ended("ok", "", "", "", taskResults, f.result)
          : s \in TopSort(BuildGraph(ts), root.name)}

\* ------------------------------------------------------------------ actions

\* ranOn once the tasks of res were returned: the caller runs a returned task
\* after the call and before its UpdateDepData; these are the contents it runs
\* against when it runs at once.
Returned(res) ==
    [n \in DOMAIN ranOn |->
        IF \E k \in 1..Len(res) : res[k].name = n
        THEN LET t == res[CHOOSE k \in 1..Len(res) : res[k].name = n]
             IN  [ran |-> TRUE, on |-> [p \in t.fileDep |-> fs[p]]]
        ELSE ranOn[n]]

\* One run of main up to the return of ScheduleTasks.
Schedule ==
    /\ pc = "start"
    /\ \E o \in ScheduleTasks(tasks, db) :
        /\ outcome' = [kind |-> o.kind, a |-> o.a, b |-> o.b, path |-> o.path]
        /\ order' = o.order
        /\ result' = o.result
        /\ pc' = IF o.kind = "ok" THEN "ran" ELSE "fatal"
    /\ next' = 1
    /\ runs' = runs + 1
    /\ last' = "Schedule"
    /\ ranOn' = Returned(result')
    /\ UNCHANGED <<tasks, fs, db, writes, prev, touched>>

\* One iteration of main's loop over the returned tasks: UpdateDepData stores
\* the task's fingerprint, or the process ends in its hashFile.
Commit ==
    /\ pc = "ran"
    /\ next <= Len(result)
    /\ IF CanHash(result[next])
       THEN /\ db' = UpdateDepData(result[next], db)
            /\ next' = next + 1
            /\ UNCHANGED <<pc, outcome>>
       ELSE /\ pc' = "fatal"
            /\ outcome' = [NoOutcome EXCEPT !.kind = "io"]
            /\ UNCHANGED <<db, next>>
    /\ last' = "Commit"
    /\ touched' = [touched EXCEPT !.fresh = FALSE]
    /\ UNCHANGED <<tasks, fs, order, result, runs, writes, prev, ranOn>>

RunBound(ts) == IF Len(ts) <= 1 THEN MaxRunsOne ELSE MaxRuns

\* Every declared task is current: FilterTasks would return none of them.
Settled ==
    \A i \in 1..Len(tasks) : CanHash(tasks[i]) /\ ~dirty(tasks[i], db)

\* The program is started again, after it ended or was stopped.
Rerun ==
    /\ pc \in {"ran", "fatal"}
    /\ runs < RunBound(tasks)
    /\ pc' = "start"
    /\ outcome' = NoOutcome
    /\ order' = <<>>
    /\ result' = <<>>
    /\ next' = 1
    /\ last' = "Rerun"
    /\ prev' = [kind |-> outcome.kind,
                left |-> {result[k].name : k \in next..Len(result)}]
    /\ UNCHANGED <<tasks, fs, db, runs, writes, touched, ranOn>>

\* The environment writes, creates or deletes a file that some task names.
WriteFile ==
    /\ pc \in {"ran", "fatal"}
    /\ writes < MaxWrites
    /\ \E p \in DeclaredFiles(tasks), c \in {NoFile} \cup (1..MaxContent) :
        /\ c # fs[p]
        /\ fs' = [fs EXCEPT ![p] = c]
        /\ touched' = [path |-> p, from |-> fs[p], settled |-> Settled, fresh |-> TRUE]
    /\ writes' = writes + 1
    /\ last' = "WriteFile"
    /\ UNCHANGED <<tasks, db, pc, outcome, order, result, next, runs, prev, ranOn>>

Next == Schedule \/ Commit \/ Rerun \/ WriteFile

Spec == Init /\ [][Next]_vars

\* The program run again and again on a filesystem nobody changes.
NextRuns == Schedule \/ Commit \/ Rerun

SpecRuns == Init /\ [][NextRuns]_vars


\* ------------------------------------------- FilterTasks called on its own

\* The digests a stored record can hold: "" or the digest of a content.
Digests == {<<>>} \cup {<<c>> : c \in 1..MaxContent}

\* What the bucket can hold for a name after earlier runs, whatever the task
\* of that name declared then: nothing, or a map from some paths to digests.
StoredMaps ==
    {NilMap} \cup {MakeMap(m) : m \in UNION {[D -> Digests] : D \in SUBSET Files}}

\* One task, any filesystem, any stored record for the task's name.
InitDirty ==
    /\ tasks \in {<<[name |-> NameOrder[1], fileDep |-> fd, targets |-> tg, taskDep |-> {}]>> :
                    fd \in SUBSET Files, tg \in SUBSET Files}
    /\ fs \in [Files -> {NoFile} \cup (1..MaxContent)]
    /\ db \in {[n \in Names \cup {root.name} |-> IF n = NameOrder[1] THEN r ELSE NilMap] :
                    r \in StoredMaps}
    /\ pc = "start"
    /\ outcome = NoOutcome
    /\ order = <<>>
    /\ result = <<>>
    /\ next = 1
    /\ runs = 0
    /\ writes = 0
    /\ last = "Init"
    /\ InitHistory

\* FilterTasks(tasks, db), called on the declared tasks.
Evaluate ==
    /\ pc = "start"
    /\ LET f == FilterTasks(tasks, db)
       IN  /\ order' = tasks
           /\ result' = f.result
           /\ outcome' = [NoOutcome EXCEPT !.kind = IF f.panic THEN "panic"
                                                    ELSE IF f.io THEN "io" ELSE "ok"]
           /\ pc' = IF f.panic \/ f.io THEN "fatal" ELSE "ran"
    /\ next' = 1
    /\ runs' = runs + 1
    /\ last' = "Evaluate"
    /\ ranOn' = Returned(result')
    /\ UNCHANGED <<tasks, fs, db, writes, prev, touched>>

NextDirty == Evaluate

SpecDirty == InitDirty /\ [][NextDirty]_vars

\* ----------------- at most two tasks, files that change and that fail to read

\* The environment makes a file that exists fail to open or to read.
LockFile ==
    /\ pc \in {"ran", "fatal"}
    /\ writes < MaxWrites
    /\ \E p \in DeclaredFiles(tasks) :
        /\ fs[p] \notin {NoFile, Locked}
        /\ fs' = [fs EXCEPT ![p] = Locked]
        /\ touched' = [path |-> p, from |-> fs[p], settled |-> Settled, fresh |-> TRUE]
    /\ writes' = writes + 1
    /\ last' = "LockFile"
    /\ UNCHANGED <<tasks, db, pc, outcome, order, result, next, runs, prev, ranOn>>


\* ts is a task list of at most two tasks.
IsShortTaskList(ts) ==
    \/ ts = <<>>
    \/ \E l1 \in Extend(<<>>) :
        \/ ts = l1
        \/ \E l2 \in Extend(l1) : ts = l2

\* Every file a task names is on disk when the first run starts.
InitShort ==
    /\ IsShortTaskList(tasks)
    /\ fs = [p \in Files |-> IF p \in DeclaredFiles(tasks) THEN 1 ELSE NoFile]
    /\ db = [n \in Names \cup {root.name} |-> NilMap]
    /\ pc = "start"
    /\ outcome = NoOutcome
    /\ order = <<>>
    /\ result = <<>>
    /\ next = 1
    /\ runs = 0
    /\ writes = 0
    /\ last = "Init"
    /\ InitHistory

SpecShort == InitShort /\ [][Next]_vars

\* The same with files that stop being readable.
NextFaults == Schedule \/ Commit \/ Rerun \/ WriteFile \/ LockFile

SpecFaults == InitShort /\ [][NextFaults]_vars

\* ------------------------- one task, a store and files that can fail to read

\* What the bucket holds for the name of task t when the first run starts:
\* nothing, or the fingerprint an earlier run stored in this state of the
\* filesystem, which db.Get reads or fails on.
StoredRecords(t) ==
    {NilMap, CalculateDepData(t).fileHashes, BadRecord(CalculateDepData(t).fileHashes.m)}

\* One task, any filesystem over the paths it names.
InitStore ==
    /\ tasks \in {<<[name |-> NameOrder[1], fileDep |-> fd, targets |-> tg, taskDep |-> {}]>> :
                    fd \in SUBSET Files, tg \in SUBSET Files}
    /\ fs \in {f \in [Files -> {NoFile, 1}] :
                    \A p \in Files \ DeclaredFiles(tasks) : f[p] = NoFile}
    /\ db \in {[n \in Names \cup {root.name} |-> IF n = NameOrder[1] THEN r ELSE NilMap] :
                    r \in StoredRecords(tasks[1])}
    /\ pc = "start"
    /\ outcome = NoOutcome
    /\ order = <<>>
    /\ result = <<>>
    /\ next = 1
    /\ runs = 0
    /\ writes = 0
    /\ last = "Init"
    /\ InitHistory

NextStore == Evaluate \/ Commit \/ Rerun \/ WriteFile \/ LockFile

SpecStore == InitStore /\ [][NextStore]_vars

\* ------------------------------------------------- the claims' vocabulary

\* The task set as the specification describes it, independent of the graph
\* the code builds.
UniqueNames(ts) == \A i, j \in 1..Len(ts) : ts[i].name = ts[j].name => i = j

\* Every taskDep names a declared task.
NoDangling(ts) == \A i \in 1..Len(ts) : ts[i].taskDep \subseteq TaskNames(ts)

\* Two distinct tasks of the list with intersecting target sets.
Overlap(ts, i, j) == i # j /\ ts[i].targets \cap ts[j].targets # {}

ConflictFree(ts) == \A i, j \in 1..Len(ts) : ~Overlap(ts, i, j)

\* A file dependency of task i that no task produces and that is not on disk.
Unresolved(ts, i, p) ==
    /\ p \in ts[i].fileDep
    /\ \A j \in 1..Len(ts) : p \notin ts[j].targets
    /\ fs[p] = NoFile

Resolvable(ts) == \A i \in 1..Len(ts) : \A p \in Files : ~Unresolved(ts, i, p)

\* The edge A -> B of the data model: B is in A's taskDep, or A's fileDep
\* intersects B's targets.  It is stated for all A and B, A = B included.
DepEdge(ts, i, j) ==
    \/ ts[j].name \in ts[i].taskDep
    \/ ts[i].fileDep \cap ts[j].targets # {}

Successors(ts, S) == {j \in 1..Len(ts) : \E i \in S : DepEdge(ts, i, j)}

RECURSIVE Closure(_, _, _)
Closure(ts, S, k) == IF k = 0 THEN S ELSE Closure(ts, S \cup Successors(ts, S), k - 1)

\* The tasks reached from task i by one edge or more.
ReachedFrom(ts, i) == Closure(ts, Successors(ts, {i}), Len(ts))

HasCycle(ts) == \E i \in 1..Len(ts) : i \in ReachedFrom(ts, i)

\* The position of the task named n in a slice of tasks (0: not in it).
Pos(seq, n) ==
    IF \E k \in 1..Len(seq) : seq[k].name = n
    THEN CHOOSE k \in 1..Len(seq) : seq[k].name = n
    ELSE 0

Occurrences(seq, t) == Card({k \in 1..Len(seq) : seq[k] = t})

Declared(t) == \E i \in 1..Len(tasks) : tasks[i] = t


\* ------------------------------------------------------------------ claims

\* C1: for a task set with unique names, no shared target and no cycle, the
\* order ScheduleTasks computed places B before A for every edge A -> B (B in
\* A's taskDep, or A's fileDep intersecting B's targets), and so does the
\* returned stale list when it holds both.  (A set that is not resolvable
\* gets no order.)
C1_OrderRespectsEdges ==
    (pc = "ran" /\ UniqueNames(tasks) /\ ConflictFree(tasks) /\ ~HasCycle(tasks)) =>
        \A i, j \in 1..Len(tasks) :
            DepEdge(tasks, i, j) =>
                /\ Pos(order, tasks[j].name) > 0
                /\ Pos(order, tasks[j].name) < Pos(order, tasks[i].name)
                /\ (Pos(result, tasks[i].name) > 0 /\ Pos(result, tasks[j].name) > 0
                        => Pos(result, tasks[j].name) < Pos(result, tasks[i].name))

\* C1's case: a consumer declared before its producer, through a taskDep edge
\* and through a file edge, all three tasks returned.
C1_Witness ==
    /\ pc = "ran"
    /\ Len(tasks) = 3
    /\ UniqueNames(tasks) /\ ConflictFree(tasks) /\ ~HasCycle(tasks)
    /\ tasks[2].name \in tasks[1].taskDep
    /\ tasks[2].fileDep \cap tasks[3].targets # {}
    /\ \A i \in 1..3 : Pos(result, tasks[i].name) > 0


\* C2, for the task sets that break no other rule (unique names, every
\* taskDep declared, no shared target, every unproduced dependency on disk): a
\* task set whose taskDep and fileDep/target edges contain a cycle ends in the
\* cycle error, with no order and nothing evaluated.
C2_CycleRejected ==
    (/\ last = "Schedule"
     /\ UniqueNames(tasks) /\ NoDangling(tasks)
     /\ ConflictFree(tasks) /\ Resolvable(tasks)
     /\ HasCycle(tasks)) =>
        /\ outcome.kind = "cycle"
        /\ order = <<>>
        /\ result = <<>>

\* C3, for the task sets with unique names in which every taskDep names a
\* declared task: two distinct tasks with intersecting targets end the run in
\* the target-conflict error, which names two such tasks, whatever the
\* filesystem holds.
C3_ConflictRejected ==
    (/\ last = "Schedule"
     /\ UniqueNames(tasks) /\ NoDangling(tasks)
     /\ ~ConflictFree(tasks)) =>
        /\ outcome.kind = "conflict"
        /\ \E i, j \in 1..Len(tasks) :
            /\ Overlap(tasks, i, j)
            /\ outcome.a = tasks[i].name
            /\ outcome.b = tasks[j].name

\* C4, its particular case: a task set with unique names that has both a
\* shared target and a missing unproduced file dependency is rejected with
\* the target-conflict error, the earlier rule of the two.
C4_ConflictBeforeMissing ==
    (/\ last = "Schedule"
     /\ UniqueNames(tasks) /\ NoDangling(tasks)
     /\ ~ConflictFree(tasks)
     /\ ~Resolvable(tasks)) =>
        outcome.kind = "conflict"

\* The fatal errors of ScheduleTasks that reject a task set.
ValidationErrors == {"edge", "missing", "conflict", "cycle"}

\* C5: a task list in which two entries have the same name is rejected with a
\* validation error.
C5_DuplicateNamesRejected ==
    (last = "Schedule" /\ ~UniqueNames(tasks)) => outcome.kind \in ValidationErrors

\* The first task, in declaration order, with an unresolved file dependency.
FirstUnresolved(ts, i) ==
    /\ \E p \in Files : Unresolved(ts, i, p)
    /\ \A j \in 1..(i - 1) : \A p \in Files : ~Unresolved(ts, j, p)

C7_NoRootReturned ==
    pc = "ran" => \A k \in 1..Len(result) : Declared(result[k])

\* C8: for a valid task set (unique names, every taskDep declared, no shared
\* target, every unproduced dependency on disk, no cycle) ScheduleTasks reaches
\* FilterTasks, and the order handed to it holds every declared task exactly
\* once and nothing else but the root.
C8_EveryTaskOnce ==
    (/\ last = "Schedule"
     /\ UniqueNames(tasks) /\ NoDangling(tasks)
     /\ ConflictFree(tasks) /\ Resolvable(tasks)
     /\ ~HasCycle(tasks)) =>
        /\ outcome.kind = "ok"
        /\ Len(order) = Len(tasks) + 1
        /\ \A i \in 1..Len(tasks) : Occurrences(order, tasks[i]) = 1

\* C8's case: three tasks, one of them with no relation to any other.
C8_Witness ==
    /\ last = "Schedule" /\ outcome.kind = "ok"
    /\ Len(tasks) = 3
    /\ \E i \in 1..3 :
        /\ \A j \in 1..3 : ~DepEdge(tasks, i, j) /\ ~DepEdge(tasks, j, i)
        /\ Occurrences(order, tasks[i]) = 1
    /\ \E i, j \in 1..3 : DepEdge(tasks, i, j)

InSlice(seq, t) == \E k \in 1..Len(seq) : seq[k] = t

\* C9: the list FilterTasks returned is the subsequence of its input made of
\* the tasks dirty classifies as stale: it holds every stale task of the
\* input, no current one, and keeps the input's relative order.
C9_FilterIsStaleSubsequence ==
    (last = "Schedule" /\ outcome.kind = "ok") =>
        /\ \A m \in 1..Len(result) : InSlice(order, result[m])
        /\ \A k \in 1..Len(order) : InSlice(result, order[k]) <=> dirty(order[k], db)
        /\ \A m1, m2 \in 1..Len(result) :
            m1 < m2 => Pos(order, result[m1].name) < Pos(order, result[m2].name)

\* C9's case: a current task between two stale ones in the input.
C9_Witness ==
    /\ last = "Schedule" /\ outcome.kind = "ok"
    /\ \E k1, k2, k3 \in 1..Len(order) :
        /\ k1 < k2 /\ k2 < k3
        /\ InSlice(result, order[k1])
        /\ ~InSlice(result, order[k2])
        /\ InSlice(result, order[k3])


\* (a) of the staleness rule: no record, a path added, a path removed, or a
\* path whose digest changed.
FingerprintDiffers(t) ==
    LET rec == db[t.name]
    IN  \/ rec.isNil
        \/ \E p \in t.fileDep : p \notin DOMAIN rec.m
        \/ \E p \in DOMAIN rec.m : p \notin t.fileDep
        \/ \E p \in t.fileDep \cap DOMAIN rec.m :
            rec.m[p] # (IF fs[p] = NoFile THEN <<>> ELSE <<fs[p]>>)

\* (b) and (c)
DepMissing(t) == \E p \in t.fileDep : fs[p] = NoFile

TargetMissing(t) == \E p \in t.targets : fs[p] = NoFile

\* C10: a task is classified stale if and only if its fingerprint differs
\* from the stored one (or there is none), or one of its file dependencies is
\* not on disk, or one of its targets is not on disk.
C10_DirtyIsLogicalOr ==
    last = "Evaluate" =>
        \A k \in 1..Len(order) :
            InSlice(result, order[k]) <=>
                (FingerprintDiffers(order[k]) \/ DepMissing(order[k])
                    \/ TargetMissing(order[k]))

\* C10's case: a task stale by (c) alone, its record equal to the current
\* fingerprint and its file dependency on disk.
C10_Witness ==
    /\ last = "Evaluate"
    /\ Len(order) = 1
    /\ order[1].fileDep # {}
    /\ ~FingerprintDiffers(order[1])
    /\ ~DepMissing(order[1])
    /\ TargetMissing(order[1])
    /\ InSlice(result, order[1])


\* Unknown: nothing is stored under the name, or what is stored cannot be read.
Unknown(n) == db[n].isNil \/ db[n].bad

\* C11: at every evaluation that completes, a task with no stored record, or
\* with a record db.Get fails on, is returned as stale, whatever its fileDep
\* and targets (both empty included); and a name's record becomes readable
\* only by the UpdateDepData of the task of that name.
C11_UnknownIsStale ==
    /\ []((last = "Evaluate" /\ pc = "ran") =>
            \A k \in 1..Len(order) :
                Unknown(order[k].name) => InSlice(result, order[k]))
    /\ [][\A n \in DOMAIN db :
            (Unknown(n) /\ ~Unknown(n)') =>
                (last' = "Commit" /\ next <= Len(result) /\ result[next].name = n)]_vars

\* C11's case: a task with no fileDep and no target whose stored record is the
\* empty map a commit wrote, which db.Get fails to read: it is returned.
C11_Witness ==
    /\ last = "Evaluate" /\ pc = "ran"
    /\ Len(order) = 1
    /\ order[1].fileDep = {} /\ order[1].targets = {}
    /\ db[order[1].name] = BadRecord(CalculateDepData(order[1]).fileHashes.m)
    /\ InSlice(result, order[1])

\* A valid task set, as the specification describes it.
Valid(ts) ==
    /\ UniqueNames(ts) /\ NoDangling(ts)
    /\ ConflictFree(ts) /\ Resolvable(ts)
    /\ ~HasCycle(ts)

\* Every path a task names is on disk.
AllPresent(ts) == \A p \in DeclaredFiles(ts) : fs[p] # NoFile

\* The run before this one returned a list and main committed all of it.
PrevCommitted == prev.kind = "ok" /\ prev.left = {}

\* C12 as stated: for a valid task set and any filesystem state, a run that
\* follows a run whose whole result was committed, with no filesystem change
\* in between, returns the empty list.
C12_Original ==
    (last = "Schedule" /\ outcome.kind = "ok" /\ Valid(tasks) /\ PrevCommitted) =>
        result = <<>>

\* C12 as amended: when moreover every file dependency and every target of
\* every task is on disk, the second run returns the empty list (for every
\* task set ScheduleTasks accepts).
C12_IdempotentWhenPresent ==
    (last = "Schedule" /\ outcome.kind = "ok" /\ PrevCommitted /\ AllPresent(tasks)) =>
        result = <<>>

\* C12's case: the second run of two tasks, a producer and its consumer, all
\* their files on disk, after a first run that returned both and committed
\* them.
C12_Witness ==
    /\ last = "Schedule" /\ outcome.kind = "ok" /\ PrevCommitted
    /\ runs = 2
    /\ AllPresent(tasks) /\ Valid(tasks)
    /\ \E i, j \in 1..Len(tasks) :
        /\ i # j
        /\ tasks[i].fileDep \cap tasks[j].targets # {}
        /\ ~db[tasks[i].name].isNil /\ ~db[tasks[j].name].isNil
    /\ result = <<>>

\* The content of a file changed: it was on disk and readable before the last
\* change of the filesystem, and it is after it, with another content.
ContentChanged ==
    /\ touched.path # ""
    /\ touched.from \notin {NoFile, Locked}
    /\ fs[touched.path] \notin {NoFile, Locked}

\* The last change was made when every task was committed and current, and
\* no fingerprint was stored since.
ChangedWhenSettled == touched.settled /\ touched.fresh

\* Task j reads a target of task i.
ReadsTargetOf(ts, j, i) == ts[j].fileDep \cap ts[i].targets # {}

ReadersOf(ts, S) == {j \in 1..Len(ts) : \E i \in S : ReadsTargetOf(ts, j, i)}

RECURSIVE Downstream(_, _, _)
Downstream(ts, S, k) ==
    IF k = 0 THEN S ELSE Downstream(ts, S \cup ReadersOf(ts, S), k - 1)

\* The tasks that depend on a target of task i through one file relationship
\* or more.
DependsOnTargetsOf(ts, i) == Downstream(ts, ReadersOf(ts, {i}), Len(ts))

\* C13 as stated: a run that follows the change of the content of a file, made
\* when every task was committed and current, returns every task T that has the
\* file in its fileDep, and every other task it returns depends on T's targets
\* through file relationships.
C13_Original ==
    (last = "Schedule" /\ outcome.kind = "ok" /\ ChangedWhenSettled /\ ContentChanged) =>
        \A i \in 1..Len(tasks) :
            touched.path \in tasks[i].fileDep =>
                /\ InSlice(result, tasks[i])
                /\ \A j \in 1..Len(tasks) :
                        InSlice(result, tasks[j]) =>
                            j = i \/ j \in DependsOnTargetsOf(tasks, i)

\* C13 as amended: of the declared tasks, such a run returns exactly those that
\* have the changed file in their own fileDep: T, every other reader of the
\* file, and no other task.
C13_ChangeSensitivity ==
    (last = "Schedule" /\ outcome.kind = "ok" /\ ChangedWhenSettled /\ ContentChanged) =>
        \A i \in 1..Len(tasks) :
            InSlice(result, tasks[i]) <=> touched.path \in tasks[i].fileDep

\* C13's case: T reads the changed file and is returned; another task reads a
\* target of T and is not.
C13_Witness ==
    /\ last = "Schedule" /\ outcome.kind = "ok" /\ ChangedWhenSettled /\ ContentChanged
    /\ \E i, j \in 1..Len(tasks) :
        /\ touched.path \in tasks[i].fileDep
        /\ ReadsTargetOf(tasks, j, i)
        /\ InSlice(result, tasks[i])
        /\ ~InSlice(result, tasks[j])

\* C14: at every evaluation that completes, a task one of whose targets is not
\* on disk is returned as stale, whatever its stored record: at the evaluation
\* that follows the deletion, and at every later one while the target is
\* absent, the task committed in between or not.
C14_MissingTargetIsStale ==
    (last = "Evaluate" /\ pc = "ran") =>
        \A k \in 1..Len(order) :
            TargetMissing(order[k]) => InSlice(result, order[k])

\* C14's case: a task committed with its file dependency and its target on
\* disk; the target is deleted; the next evaluation returns the task and it is
\* committed again; this is the evaluation after that one: the record equals
\* the fingerprint, the dependency is on disk, and the task is returned.
C14_Witness ==
    /\ last = "Evaluate" /\ pc = "ran"
    /\ runs = 3 /\ PrevCommitted
    /\ Len(order) = 1
    /\ order[1].fileDep # {}
    /\ touched.settled /\ ~touched.fresh
    /\ touched.path \in order[1].targets
    /\ touched.from # NoFile /\ fs[touched.path] = NoFile
    /\ ~FingerprintDiffers(order[1]) /\ ~DepMissing(order[1])
    /\ InSlice(result, order[1])

\* C15: a run that follows a run main was stopped in, on an unchanged
\* filesystem, returns again every task the stopped run had returned and not
\* yet committed; and an UpdateDepData changes the record of no other name
\* than its task's.
C15_RemainderStaysStale ==
    /\ []((last = "Schedule" /\ outcome.kind = "ok" /\ prev.kind = "ok") =>
            \A n \in prev.left : Pos(result, n) > 0)
    /\ [][last' = "Commit" =>
            \A n \in DOMAIN db :
                (next <= Len(result) /\ n # result[next].name) => db'[n] = db[n]]_vars

\* C15's case: the first run returned three tasks and the root, and main was
\* stopped after the first commit; the second run returns the two tasks left
\* and the root, and not the committed one.
C15_Witness ==
    /\ last = "Schedule" /\ outcome.kind = "ok" /\ prev.kind = "ok"
    /\ runs = 2
    /\ Len(tasks) = 3
    /\ Card(prev.left) = 3
    /\ \A n \in prev.left : Pos(result, n) > 0
    /\ \E i \in 1..3 :
        /\ tasks[i].name \notin prev.left
        /\ ~db[tasks[i].name].isNil
        /\ Pos(result, tasks[i].name) = 0

\* Task t was returned by an earlier run, and a file of its fileDep does not
\* have now the content it had when the caller ran t.
RanOnOtherContent(t) ==
    /\ ranOn[t.name].ran
    /\ \E p \in t.fileDep : ranOn[t.name].on[p] # fs[p]

\* C16: under every interleaving of file changes with evaluation, execution
\* and commit, a run returns every task one of whose file dependencies has a
\* content other than the one the task was last run against.
C16_NeverSkipsChangedInput ==
    (last = "Schedule" /\ outcome.kind = "ok") =>
        \A i \in 1..Len(tasks) :
            RanOnOtherContent(tasks[i]) => InSlice(result, tasks[i])

\* Some file dependency of task t exists and cannot be opened or read.
ReadFails(t) == \E p \in t.fileDep : HashFails(p)

\* C17: when a file dependency of some task of a valid task set cannot be
\* read, the run is not terminated: ScheduleTasks returns, and every task whose
\* own file dependencies can be read is evaluated, returned if and only if it
\* is stale.
C17_ReadErrorIsPerTask ==
    (/\ last = "Schedule"
     /\ Valid(tasks)
     /\ \E i \in 1..Len(tasks) : ReadFails(tasks[i])) =>
        /\ pc = "ran"
        /\ \A i \in 1..Len(tasks) :
            ~ReadFails(tasks[i]) => (InSlice(result, tasks[i]) <=> dirty(tasks[i], db))

\* C18: a run of ScheduleTasks on the task list, the filesystem and the store
\* this run had returns the list this run returned, in the same order.
C18_Deterministic ==
    (last = "Schedule" /\ outcome.kind = "ok") =>
        \A o \in ScheduleTasks(tasks, db) : o.kind = "ok" => o.result = result

\* C19, for task lists of unique names: the file edges of src/main.go's
\* pairwise loop are the edge A -> B for every A and B of the list, A = B
\* included, such that A's fileDep intersects B's targets; they are the edges
\* of the prototypes' all-pairs loop; and the list is accepted by the one
\* exactly when it is accepted by the other.
C19_PairwiseIsAllPairs ==
    (last = "Schedule" /\ UniqueNames(tasks)) =>
        /\ \A i, j \in 1..Len(tasks) :
                tasks[i].fileDep \cap tasks[j].targets # {} =>
                    <<tasks[i].name, tasks[j].name>> \in FileEdges(tasks)
        /\ FileEdges(tasks) = AllPairsFileEdges(tasks)
        /\ (outcome.kind = "ok") <=> PrototypeAccepts(tasks)

\* C20: a run returns no declared task that has a stored record equal to its
\* current fingerprint, every file dependency on disk and every target on
\* disk, whatever it returns of the other tasks, those of its taskDep
\* included.
C20_NoPropagation ==
    (last = "Schedule" /\ outcome.kind = "ok") =>
        \A i \in 1..Len(tasks) :
            (/\ ~FingerprintDiffers(tasks[i])
             /\ ~DepMissing(tasks[i])
             /\ ~TargetMissing(tasks[i])) => ~InSlice(result, tasks[i])

\* C20's case: a committed task with a file dependency, current, that names in
\* its taskDep a task the same run returns as stale.
C20_Witness ==
    /\ last = "Schedule" /\ outcome.kind = "ok"
    /\ \E i, j \in 1..Len(tasks) :
        /\ tasks[j].name \in tasks[i].taskDep
        /\ tasks[i].fileDep # {}
        /\ ~FingerprintDiffers(tasks[i])
        /\ ~DepMissing(tasks[i]) /\ ~TargetMissing(tasks[i])
        /\ ~InSlice(result, tasks[i])
        /\ InSlice(result, tasks[j])

=============================================================================
